---- MODULE Spec2Model ----
(***************************************************************************)
(* Model of excitation/excite.py: the excitation control loop (main), the  *)
(* dataset hand-off, the plotting step and the top-level error wrapper.    *)
(*                                                                         *)
(* Time is measured on a grid of PeriodLength steps per trajectory period  *)
(* (one step = 2*pi/w_f_global/25 s).  Angles, velocities and              *)
(* accelerations are in thousandths of a degree (per s, per s^2), that is  *)
(* the value the oscillators return, rounded to three decimals.            *)
(***************************************************************************)
EXTENDS Integers, Sequences, FiniteSets, TLC

\* ---------------------------------------------------------------- bounds
\* number of joints of the loaded robot model (len(jointNames))
N_DOFS == 2
\* largest value given to --periods
MaxPeriods == 2
\* largest advance of the network clock between two polls of the settle wait
MaxPollStep == 2
\* largest number of RUN ticks explored
MaxSamples == 2
\* value of the network clock when it first reports valid
StartClock == 1

\* ------------------------------------------------------- trajectory maths
\* TrajectoryGenerator.getPeriodLength, in grid steps
PeriodLength == 25

\* OscillationGenerator.getAngle / getVelocity / getAcceleration of the seven
\* oscillators built by TrajectoryGenerator.__init__ (w_f = 2.0, nf = 1,
\* use_deg = True), tabulated over one period of the grid.
AngleTable ==
  <<<<-15783, -16398, -15354, -12717, -8653, -3417, 2663, 9203, 15794, 22020, 27491, 31863, 34862, 36298, 36082, 34227, 30849, 26162, 20459, 14099, 7482, 1022, -4873, -9834, -13548>>,
     <<24217, 28589, 34307, 41010, 48279, 55655, 62677, 68901, 73939, 77472, 79278, 79246, 77375, 73785, 68700, 62440, 55398, 48017, 40761, 34085, 28410, 24091, 21400, 20505, 21465>>,
     <<-122972, -127321, -128697, -127014, -122376, -115076, -105571, -94460, -82441, -70268, -58706, -48483, -40239, -34495, -31609, -31764, -34950, -40966, -49436, -59825, -71482, -83675, -95636, -106616, -115922>>,
     <<-47918, -43636, -38183, -31901, -25186, -18459, -12143, -6635, -2281, 645, 1961, 1582, -467, -4058, -8964, -14878, -21428, -28203, -34776, -40735, -45705, -49374, -51512, -51984, -50761>>,
     <<21352, 29377, 38697, 48727, 58838, 68393, 76793, 83509, 88119, 90334, 90015, 87182, 82013, 74831, 66090, 56338, 46187, 36276, 27228, 19610, 13902, 10461, 9506, 11094, 15128>>,
     <<-37242, -41059, -42296, -40876, -36887, -30581, -22352, -12720, -2288, 8288, 18342, 27245, 34435, 39462, 42009, 41917, 39191, 34002, 26677, 17675, 7564, -3024, -13421, -22975, -31085>>,
     <<-37918, -42898, -46124, -47395, -46631, -43879, -39312, -33218, -25979, -18050, -9930, -2128, 4865, 10610, 14746, 17012, 17268, 15495, 11807, 6434, -286, -7930, -16018, -24042, -31499>>>>
VelocityTable ==
  <<<<-11459, 1725, 14800, 26946, 37399, 45501, 50745, 52800, 51538, 47037, 39581, 29637, 17832, 4906, -8328, -21039, -32428, -41779, -48506, -52184, -52583, -49679, -43653, -34884, -23923>>,
     <<28648, 40572, 49947, 56183, 58889, 57895, 53263, 45285, 34461, 21472, 7133, -7653, -21959, -34885, -45619, -53486, -57993, -58856, -56021, -49666, -40190, -28188, -14416, 262, 14924>>,
     <<-45837, -23023, 1237, 25419, 48004, 67573, 82896, 93010, 97280, 95438, 87599, 74256, 56247, 34704, 10980, -13434, -37003, -58248, -75832, -88652, -95902, -97125, -92246, -81571, -65770>>,
     <<28648, 39147, 47186, 52261, 54051, 52446, 47545, 39657, 29277, 17057, 3765, -9763, -22677, -34167, -43510, -50119, -53579, -53672, -50393, -43947, -34741, -23351, -10494, 3022, 16349>>,
     <<57296, 69745, 77811, 80988, 79077, 72197, 60780, 45545, 27447, 7625, -12676, -32180, -49663, -64025, -74364, -80031, -80669, -76238, -67017, -53585, -36786, -17676, 2545, 22606, 41247>>,
     <<-40107, -20323, 737, 21751, 41399, 58445, 71819, 80680, 84472, 82956, 76228, 64710, 49126, 30455, 9871, -11334, -31826, -50319, -65650, -76856, -83233, -84380, -80225, -71029, -57371>>,
     <<-45837, -32997, -18085, -2036, 14141, 29429, 42868, 53614, 60991, 64535, 64025, 59491, 51220, 39730, 25744, 10141, -6100, -21958, -36436, -48624, -57758, -63262, -64791, -62249, -55796>>>>
AccelerationTable ==
  <<<<103132, 105592, 101417, 90869, 74612, 53666, 29349, 3187, -23175, -48080, -69965, -87453, -99447, -105192, -104327, -96907, -83398, -64649, -41837, -16397, 10073, 35911, 59492, 79335, 94193>>,
     <<103132, 85643, 62773, 35959, 6885, -22622, -50707, -75606, -95754, -109886, -117113, -116982, -109500, -95138, -74798, -49758, -21592, 7931, 36956, 63658, 86361, 103638, 114402, 117978, 114141>>,
     <<171887, 189285, 194790, 188055, 169504, 140303, 102285, 57841, 9762, -38930, -85176, -126070, -159042, -182022, -193564, -192944, -180201, -156135, -122258, -80699, -34070, 14700, 62546, 106462, 143689>>,
     <<91673, 74544, 52731, 27605, 745, -26163, -51427, -73459, -90875, -102582, -107843, -106328, -98131, -83769, -64144, -40488, -14288, 12810, 39103, 62939, 82820, 97497, 106049, 107936, 103042>>,
     <<114592, 82494, 45212, 5090, -35352, -73572, -107170, -134034, -152476, -161338, -160062, -148729, -128050, -99326, -64361, -25351, 15251, 54895, 91090, 121561, 144394, 158154, 161977, 155622, 139489>>,
     <<148969, 164237, 169186, 163504, 147549, 122322, 89410, 50879, 9152, -33150, -73370, -108979, -137741, -157848, -168037, -167667, -156762, -136008, -106707, -70702, -30254, 12095, 53683, 91899, 124340>>,
     <<91673, 111591, 124498, 129582, 126523, 115515, 97249, 72872, 43916, 12201, -20281, -51488, -79461, -102440, -118983, -128049, -129070, -121981, -107227, -85736, -58858, -28281, 4072, 36170, 65995>>>>

\* OscillationGenerator.getAngle of joint dof (0-based) at grid time t
getAngle(dof, t) == AngleTable[dof + 1][(t % PeriodLength) + 1]

\* OscillationGenerator.getVelocity of joint dof (0-based) at grid time t
getVelocity(dof, t) == VelocityTable[dof + 1][(t % PeriodLength) + 1]

\* OscillationGenerator.getAcceleration of joint dof (0-based) at grid time t
getAcceleration(dof, t) == AccelerationTable[dof + 1][(t % PeriodLength) + 1]

\* abs() of Python
Abs(x) == IF x < 0 THEN -x ELSE x

\* round() of Python 2 on a value given in thousandths: nearest integer,
\* halves away from zero
Round(milli) ==
  IF milli >= 0 THEN (milli + 500) \div 1000 ELSE -((-milli + 500) \div 1000)

\* wait_for_zero_vel compared on the unrounded velocity
WaitForZeroVelUnrounded(t) == Abs(getVelocity(0, t)) < 5000

\* wait_for_zero_vel: abs(round(trajectories.getVelocity(0))) < 5
\* (it returns True or None; None counts as not started)
wait_for_zero_vel(t) == Abs(Round(getVelocity(0, t))) < 5

\* the target rows of one loop iteration
target_angles(t) == [i \in 1..N_DOFS |-> getAngle(i - 1, t)]
target_velocities(t) == [i \in 1..N_DOFS |-> getVelocity(i - 1, t)]
target_accelerations(t) == [i \in 1..N_DOFS |-> getAcceleration(i - 1, t)]

\* np.zeros(N_DOFS)
Zeros == [i \in 1..N_DOFS |-> 0]

\* ------------------------------------------------------------ environment
\* values of --filename explored; the first is the default of the parser
DefaultFilename == "measurements.npz"
FileNames == {DefaultFilename, "other.npz"}

\* the command lines explored
ArgsSet ==
  [dryrun : BOOLEAN, plot : BOOLEAN, filename : FileNames, periods : 0..MaxPeriods]

\* advance of the network clock between two polls of yarp.Time.now()
PollSteps == 0..MaxPollStep

\* by how much yarp.Time.delay(period) overshoots the period
DelayOvershoots == {0, 1}

\* advance of the clock from one telemetry message to the next
TelSteps == {0, PeriodLength - 1, 2 * PeriodLength}

\* joint counts a telemetry message may report
TelSizes == {N_DOFS - 1, N_DOFS, N_DOFS + 1}

\* a telemetry message: bottle elements 0..3
Telemetry(n, time) ==
  [positions |-> [i \in 1..n |-> 100 + i],
   velocities |-> [i \in 1..n |-> 200 + i],
   torques |-> [i \in 1..n |-> 300 + i],
   time |-> time]

\* exceptions the environment raises inside a blocking call
EnvExceptions == {"KeyboardInterrupt", "RuntimeError"}

\* Python's class hierarchy: KeyboardInterrupt derives from BaseException,
\* not from Exception
IsExceptionSubclass(kind) == kind # "KeyboardInterrupt"

\* a dataset archive; Absent stands for a file that does not exist
Absent == [origin |-> "absent", samples |-> 0, times |-> <<>>]
PreviousDataset == [origin |-> "previous_run", samples |-> 1, times |-> <<0>>]

VARIABLES
  args,                  \* the parsed command line
  pc,                    \* position of the program
  now,                   \* last value read from the network clock
  command_port,          \* "unopened", "open" or "closed"
  data_port,             \* "unopened", "open" or "closed"
  t_init, t_elapsed, duration, waited_for_start, started,
  sent_positions, sent_velocities, sent_accelerations, sent_time,
  measured_positions, measured_velocities, measured_torques, measured_time,
  commandsSent,          \* number of command_port.write() calls
  telemetryRead,         \* number of data_port.read() calls that returned
  warnings,              \* number of "wrong amount of values" warnings printed
  fs,                    \* the dataset files on disk
  plotPath,              \* the path plot() loaded, "none" before
  plotted,               \* the dataset plot() loaded
  exc,                   \* the exception that escaped, "none" if none
  excIn,                 \* "main" or "plot": where it was raised
  output,                \* what the error wrapper did, in order
  mainCompleted,         \* main() returned
  phase, phaseHist,      \* phase of the control loop, and the phases entered
  lastEvalT, lastEvalLeft, \* last time given to wait_for_zero_vel, its result
  waitSentCommand,       \* whether the last settle-wait iteration sent a command
  detectClock,           \* the clock reading of the iteration that detected
  holdEnd,               \* the clock when the settle delay returned
  rxSizes,               \* joint count of each telemetry message read
  lastData               \* the last telemetry message read

loopVars == <<t_init, t_elapsed, duration, waited_for_start, started>>
sentVars == <<sent_positions, sent_velocities, sent_accelerations, sent_time>>
\* (measured_accelerations is created empty and never appended to nor read)
measuredVars ==
  <<measured_positions, measured_velocities, measured_torques, measured_time>>
portVars == <<command_port, data_port>>
ioVars == <<commandsSent, telemetryRead, warnings>>
plotVars == <<plotPath, plotted>>
excVars == <<exc, excIn, output>>
phaseVars == <<phase, phaseHist>>
settleGhost == <<lastEvalT, lastEvalLeft, waitSentCommand, detectClock, holdEnd>>
rxGhost == <<rxSizes, lastData>>

vars ==
  <<args, pc, now, portVars, loopVars, sentVars, measuredVars, ioVars, fs,
    plotVars, excVars, mainCompleted, phaseVars, settleGhost, rxGhost>>

NoData == Telemetry(0, 0)

Init ==
  /\ args \in ArgsSet
  /\ pc = "start"
  /\ now = 0
  /\ command_port = "unopened" /\ data_port = "unopened"
  /\ t_init = 0 /\ t_elapsed = 0 /\ duration = 0
  /\ waited_for_start = 0 /\ started = FALSE
  /\ sent_positions = <<>> /\ sent_velocities = <<>>
  /\ sent_accelerations = <<>> /\ sent_time = <<>>
  /\ measured_positions = <<>> /\ measured_velocities = <<>>
  /\ measured_torques = <<>> /\ measured_time = <<>>
  /\ commandsSent = 0 /\ telemetryRead = 0 /\ warnings = 0
  /\ \E prev \in {Absent, PreviousDataset} : fs = [f \in FileNames |-> prev]
  /\ plotPath = "none" /\ plotted = Absent
  /\ exc = "none" /\ excIn = "none" /\ output = <<>>
  /\ mainCompleted = FALSE
  /\ phase = "NOT_STARTED" /\ phaseHist = <<>>
  /\ lastEvalT = -1 /\ lastEvalLeft = FALSE /\ waitSentCommand = FALSE
  /\ detectClock = -1 /\ holdEnd = -1
  /\ rxSizes = <<>> /\ lastData = NoData

\* ------------------------------------------------------- the error wrapper
\* a wrapper that handles every exception it sees
CaughtAny(kind) == TRUE

\* except Exception as e: if type(e) is not KeyboardInterrupt
Caught(kind) == IsExceptionSubclass(kind) /\ kind # "KeyboardInterrupt"

\* an exception of class kind escapes main() or plot(): the except clause
\* prints the traceback and enters ipdb.post_mortem, or the exception
\* propagates and the process ends
Raise(kind, where) ==
  /\ exc' = kind
  /\ excIn' = where
  /\ IF Caught(kind)
       THEN /\ output' = output \o <<"traceback", "post_mortem">>
            /\ pc' = "post_mortem"
       ELSE /\ output' = output
            /\ pc' = "uncaught"

\* a top level that runs main() whatever --dryrun says
RunsMainAlways(a) == TRUE

\* if(not args.dryrun): main()
RunsMain(a) == ~a.dryrun

\* where the top level goes once main() is over or skipped: if(args.plot)
AfterMain(a) == IF a.plot THEN "plot" ELSE "exit"

\* __main__: the try block up to the call of main() or plot()
Start ==
  /\ pc = "start"
  /\ pc' = IF RunsMain(args) THEN "clock_sync" ELSE AfterMain(args)
  /\ phase' = IF RunsMain(args) THEN "CLOCK_SYNC" ELSE phase
  /\ phaseHist' = IF RunsMain(args) THEN <<"CLOCK_SYNC">> ELSE phaseHist
  /\ UNCHANGED <<args, now, portVars, loopVars, sentVars, measuredVars, ioVars,
                 fs, plotVars, excVars, mainCompleted, settleGhost, rxGhost>>

\* ------------------------------------------------------------------- main
\* yarp.Network.init() ... while not yarp.Time.isValid(): continue
ClockSync ==
  /\ pc = "clock_sync"
  /\ \E valid \in BOOLEAN :
       IF valid
         THEN /\ now' = StartClock
              /\ pc' = "setup"
         ELSE UNCHANGED <<now, pc>>
  /\ UNCHANGED <<args, portVars, loopVars, sentVars, measuredVars, ioVars, fs,
                 plotVars, excVars, mainCompleted, phaseVars, settleGhost,
                 rxGhost>>

\* both ports are opened and connected; the loop state is initialised
Setup ==
  /\ pc = "setup"
  /\ command_port' = "open"
  /\ data_port' = "open"
  /\ t_init' = now
  /\ t_elapsed' = 0
  /\ duration' = args.periods * PeriodLength
  /\ waited_for_start' = 0
  /\ started' = FALSE
  /\ pc' = "loop"
  /\ phase' = "SETTLE_WAIT"
  /\ phaseHist' = Append(phaseHist, "SETTLE_WAIT")
  /\ UNCHANGED <<args, now, sentVars, measuredVars, ioVars, fs, plotVars,
                 excVars, mainCompleted, settleGhost, rxGhost>>

\* a settle-wait iteration that also sends the current target
SettleWaitSending ==
  /\ pc = "loop"
  /\ t_elapsed < duration
  /\ ~started
  /\ ~wait_for_zero_vel(t_elapsed)
  /\ \E d \in PollSteps :
       /\ now' = now + d
       /\ t_elapsed' = now' - t_init
       /\ waited_for_start' = now' - t_init
  /\ commandsSent' = commandsSent + 1
  /\ waitSentCommand' = TRUE
  /\ lastEvalT' = t_elapsed
  /\ lastEvalLeft' = FALSE
  /\ UNCHANGED <<args, pc, portVars, t_init, duration, started, sentVars,
                 measuredVars, telemetryRead, warnings, fs, plotVars, excVars,
                 mainCompleted, phaseVars, detectClock, holdEnd, rxGhost>>

\* one iteration of the loop while not started, wait_for_zero_vel not True:
\* the targets are computed, the clock is read, and the loop continues
SettleWait ==
  /\ pc = "loop"
  /\ t_elapsed < duration
  /\ ~started
  /\ ~wait_for_zero_vel(t_elapsed)
  /\ \E d \in PollSteps :
       /\ now' = now + d
       /\ t_elapsed' = now' - t_init
       /\ waited_for_start' = now' - t_init
  /\ UNCHANGED <<started, ioVars>>
  /\ waitSentCommand' = (commandsSent' # commandsSent)
  /\ lastEvalT' = t_elapsed
  /\ lastEvalLeft' = started'
  /\ UNCHANGED <<args, pc, portVars, t_init, duration, sentVars,
                 measuredVars, fs, plotVars, excVars, mainCompleted,
                 phaseVars, detectClock, holdEnd, rxGhost>>

\* the iteration in which wait_for_zero_vel returns True, up to the delay:
\* the clock is read and one command is written
SettleDetect ==
  /\ pc = "loop"
  /\ t_elapsed < duration
  /\ ~started
  /\ wait_for_zero_vel(t_elapsed)
  /\ started' = TRUE
  /\ \E d \in PollSteps :
       /\ now' = now + d
       /\ t_elapsed' = now' - t_init
       /\ waited_for_start' = now' - t_init
  /\ detectClock' = now'
  /\ commandsSent' = commandsSent + 1
  /\ lastEvalT' = t_elapsed
  /\ lastEvalLeft' = started'
  /\ pc' = "hold"
  /\ phase' = "SETTLE_HOLD"
  /\ phaseHist' = Append(phaseHist, "SETTLE_HOLD")
  /\ UNCHANGED <<args, portVars, t_init, duration, sentVars, measuredVars,
                 telemetryRead, warnings, fs, plotVars, excVars, mainCompleted,
                 waitSentCommand, holdEnd, rxGhost>>

\* a settle hold that leaves the start reference where it was
SettleHoldKeepsInit ==
  /\ pc = "hold"
  /\ \E e \in DelayOvershoots : now' = now + PeriodLength + e
  /\ holdEnd' = now'
  /\ duration' = duration + waited_for_start
  /\ pc' = "loop"
  /\ phase' = "RUN"
  /\ phaseHist' = Append(phaseHist, "RUN")
  /\ UNCHANGED <<args, portVars, t_init, t_elapsed, waited_for_start, started,
                 sentVars, measuredVars, ioVars, fs, plotVars, excVars,
                 mainCompleted, lastEvalT, lastEvalLeft, waitSentCommand,
                 detectClock, rxGhost>>

\* yarp.Time.delay(period) returns; t_init += period; duration += waited
SettleHold ==
  /\ pc = "hold"
  /\ \E e \in DelayOvershoots : now' = now + PeriodLength + e
  /\ holdEnd' = now'
  /\ t_init' = t_init + PeriodLength
  /\ duration' = duration + waited_for_start
  /\ pc' = "loop"
  /\ phase' = "RUN"
  /\ phaseHist' = Append(phaseHist, "RUN")
  /\ UNCHANGED <<args, portVars, t_elapsed, waited_for_start, started,
                 sentVars, measuredVars, ioVars, fs, plotVars, excVars,
                 mainCompleted, lastEvalT, lastEvalLeft, waitSentCommand,
                 detectClock, rxGhost>>

\* a RUN iteration up to the blocking read: the command is written and the
\* sent targets and the send time are appended
RunSend ==
  /\ pc = "loop"
  /\ t_elapsed < duration
  /\ started
  /\ Len(sent_positions) < MaxSamples
  /\ commandsSent' = commandsSent + 1
  /\ sent_positions' = Append(sent_positions, target_angles(t_elapsed))
  /\ sent_velocities' = Append(sent_velocities, target_velocities(t_elapsed))
  /\ sent_accelerations' =
       Append(sent_accelerations, target_accelerations(t_elapsed))
  /\ sent_time' = Append(sent_time, now)
  /\ pc' = "recv"
  /\ UNCHANGED <<args, now, portVars, loopVars, measuredVars, telemetryRead,
                 warnings, fs, plotVars, excVars, mainCompleted, phaseVars,
                 settleGhost, rxGhost>>

\* a decoder that copies whatever values the message holds
DecodeRowCopying(values, n) ==
  [i \in 1..N_DOFS |-> IF i <= n THEN values[i] ELSE 0]

\* one measured row: np.zeros(N_DOFS), filled from the bottle's list only if
\* N_DOFS == b_positions.size(); n is b_positions.size()
DecodeRow(values, n) ==
  IF N_DOFS = n THEN [i \in 1..N_DOFS |-> values[i]] ELSE Zeros

\* a read that appends nothing for a message of the wrong size
RunRecvDropping ==
  /\ pc = "recv"
  /\ \E step \in TelSteps, n \in TelSizes :
       LET data == Telemetry(n, now + step) IN
         /\ now' = data.time
         /\ IF N_DOFS = n
              THEN /\ measured_positions' =
                        Append(measured_positions, DecodeRow(data.positions, n))
                   /\ measured_velocities' =
                        Append(measured_velocities, DecodeRow(data.velocities, n))
                   /\ measured_torques' =
                        Append(measured_torques, DecodeRow(data.torques, n))
                   /\ measured_time' = Append(measured_time, data.time)
                   /\ warnings' = warnings
              ELSE /\ UNCHANGED measuredVars
                   /\ warnings' = warnings + 1
         /\ t_elapsed' = data.time - t_init
         /\ rxSizes' = Append(rxSizes, n)
         /\ lastData' = data
  /\ telemetryRead' = telemetryRead + 1
  /\ pc' = "loop"
  /\ UNCHANGED <<args, portVars, t_init, duration, waited_for_start, started,
                 sentVars, commandsSent, fs, plotVars, excVars, mainCompleted,
                 phaseVars, settleGhost>>

\* the rest of a RUN iteration: the blocking read returns a message, the
\* measured rows and the telemetry time are appended, t_elapsed is updated
RunRecv ==
  /\ pc = "recv"
  /\ \E step \in TelSteps, n \in TelSizes :
       LET data == Telemetry(n, now + step) IN
         /\ now' = data.time
         /\ measured_positions' =
              Append(measured_positions, DecodeRow(data.positions, n))
         /\ measured_velocities' =
              Append(measured_velocities, DecodeRow(data.velocities, n))
         /\ measured_torques' =
              Append(measured_torques, DecodeRow(data.torques, n))
         /\ measured_time' = Append(measured_time, data.time)
         /\ warnings' = IF N_DOFS = n THEN warnings ELSE warnings + 1
         /\ t_elapsed' = data.time - t_init
         /\ rxSizes' = Append(rxSizes, n)
         /\ lastData' = data
  /\ telemetryRead' = telemetryRead + 1
  /\ pc' = "loop"
  /\ UNCHANGED <<args, portVars, t_init, duration, waited_for_start, started,
                 sentVars, commandsSent, fs, plotVars, excVars, mainCompleted,
                 phaseVars, settleGhost>>

\* the loop condition fails: both ports are closed
LoopExit ==
  /\ pc = "loop"
  /\ ~(t_elapsed < duration)
  /\ command_port' = "closed"
  /\ data_port' = "closed"
  /\ pc' = "process"
  /\ phase' = "DONE"
  /\ phaseHist' = Append(phaseHist, "DONE")
  /\ UNCHANGED <<args, now, loopVars, sentVars, measuredVars, ioVars, fs,
                 plotVars, excVars, mainCompleted, settleGhost, rxGhost>>

\* the archive np.savez writes
ThisRun ==
  [origin |-> "this_run", samples |-> Len(measured_time), times |-> measured_time]

\* the buffers become arrays, measured_frequency = len(sent_positions)/duration,
\* preprocess() divides by fs/2, np.savez writes args.filename; main() returns
\* and the top level tests args.plot.  A zero duration or a zero frequency is
\* a ZeroDivisionError of Python's float division.
Process ==
  /\ pc = "process"
  /\ IF duration = 0 \/ Len(sent_positions) = 0
       THEN /\ Raise("ZeroDivisionError", "main")
            /\ UNCHANGED <<fs, mainCompleted>>
       ELSE /\ fs' = [fs EXCEPT ![args.filename] = ThisRun]
            /\ mainCompleted' = TRUE
            /\ pc' = AfterMain(args)
            /\ UNCHANGED excVars
  /\ UNCHANGED <<args, now, portVars, loopVars, sentVars, measuredVars, ioVars,
                 plotVars, phaseVars, settleGhost, rxGhost>>

\* ------------------------------------------------------------------- plot
\* the path plot() gives to np.load
PlotSource(a) == DefaultFilename

\* plot(): the archive is loaded and drawn; a missing file is an IOError
Plot ==
  /\ pc = "plot"
  /\ plotPath' = PlotSource(args)
  /\ IF fs[PlotSource(args)] = Absent
       THEN /\ Raise("IOError", "plot")
            /\ UNCHANGED plotted
       ELSE /\ plotted' = fs[PlotSource(args)]
            /\ pc' = "exit"
            /\ UNCHANGED excVars
  /\ UNCHANGED <<args, now, portVars, loopVars, sentVars, measuredVars, ioVars,
                 fs, mainCompleted, phaseVars, settleGhost, rxGhost>>

\* ------------------------------------------------------------ environment
\* the blocking calls: the settle delay, the telemetry read, the plot window
BlockingPoints == {"hold", "recv", "plot"}

\* the operator interrupts a blocking call, or the call fails
Fail ==
  /\ pc \in BlockingPoints
  /\ \E kind \in EnvExceptions :
       Raise(kind, IF pc = "plot" THEN "plot" ELSE "main")
  /\ UNCHANGED <<args, now, portVars, loopVars, sentVars, measuredVars, ioVars,
                 fs, plotVars, mainCompleted, phaseVars, settleGhost, rxGhost>>

Next ==
  \/ Start
  \/ ClockSync
  \/ Setup
  \/ SettleWait
  \/ SettleDetect
  \/ SettleHold
  \/ RunSend
  \/ RunRecv
  \/ LoopExit
  \/ Process
  \/ Plot
  \/ Fail

Spec == Init /\ [][Next]_vars

\* the runs that enter the control loop with at least one period requested
InitRun == Init /\ ~args.dryrun /\ args.periods >= 1

SpecRun == InitRun /\ [][Next]_vars

\* ----------------------------------------------------------------- claims
PhaseOrder == <<"CLOCK_SYNC", "SETTLE_WAIT", "SETTLE_HOLD", "RUN", "DONE">>

IsPrefix(s, t) == Len(s) <= Len(t) /\ \A i \in 1..Len(s) : s[i] = t[i]

\* C1: the phases are entered only in the order CLOCK_SYNC, SETTLE_WAIT,
\* SETTLE_HOLD, RUN, DONE: none is re-entered, SETTLE_HOLD is entered once, and
\* DONE is reached only from RUN.
C1_PhasesInOrder == IsPrefix(phaseHist, PhaseOrder)

MismatchTicks == {i \in 1..Len(rxSizes) : rxSizes[i] # N_DOFS}

\* C2: a telemetry message with a joint count other than N_DOFS does not make
\* the loop fail: one warning is printed for it, its measured position,
\* velocity and torque rows are N_DOFS zeros, its timestamp is appended and
\* becomes the new elapsed time, and the loop continues.
C2_MismatchZeroFilled ==
  /\ Len(measured_positions) = Len(rxSizes)
  /\ Len(measured_velocities) = Len(rxSizes)
  /\ Len(measured_torques) = Len(rxSizes)
  /\ Len(measured_time) = Len(rxSizes)
  /\ \A i \in MismatchTicks :
       /\ measured_positions[i] = Zeros
       /\ measured_velocities[i] = Zeros
       /\ measured_torques[i] = Zeros
  /\ warnings = Cardinality(MismatchTicks)
  /\ (pc = "loop" /\ Len(rxSizes) > 0) =>
       /\ measured_time[Len(measured_time)] = lastData.time
       /\ t_elapsed = lastData.time - t_init
  /\ (phase = "RUN" /\ exc # "none") => exc \in EnvExceptions

\* C2 witness: a message of the wrong size was read and a later tick followed
C2_Witness ==
  /\ pc = "loop"
  /\ Len(rxSizes) >= 2
  /\ rxSizes[1] # N_DOFS
  /\ rxSizes[2] = N_DOFS

\* C3 as stated: the loop leaves SETTLE_WAIT at exactly those evaluated ticks
\* at which the velocity of joint 0 is below 5 deg/s in absolute value.
C3_LeavesWhenBelowFive ==
  lastEvalT >= 0 => (lastEvalLeft <=> Abs(getVelocity(0, lastEvalT)) < 5000)

\* C3 amended: the loop leaves SETTLE_WAIT at the first evaluated tick at which
\* the velocity of joint 0, rounded to a whole number of deg/s, is below 5 in
\* absolute value, and at no evaluated tick before.
C3_LeavesWhenRoundedBelowFive ==
  /\ lastEvalT >= 0 =>
       (lastEvalLeft <=> Abs(Round(getVelocity(0, lastEvalT))) < 5)
  /\ started <=> (lastEvalT >= 0 /\ lastEvalLeft)

\* C3 witness: the loop left SETTLE_WAIT in the second period, after ticks
\* that did not settle
C3_Witness == pc = "hold" /\ lastEvalLeft /\ lastEvalT = PeriodLength + 1

PlotEntered == pc = "plot" \/ plotPath # "none"

\* C4: with --dryrun no port is opened, no command written and no telemetry
\* read, and only the plotting step runs, if --plot is set; without --dryrun
\* the plotting step starts only after main() has returned.
C4_DryRunSkipsLoop ==
  /\ args.dryrun =>
       /\ command_port = "unopened" /\ data_port = "unopened"
       /\ commandsSent = 0 /\ telemetryRead = 0
       /\ phaseHist = <<>>
       /\ ~mainCompleted
  /\ PlotEntered => args.plot
  /\ (~args.dryrun /\ PlotEntered) => (mainCompleted /\ phase = "DONE")

\* C4 witness: a dry run that plotted
C4_Witness == args.dryrun /\ pc = "exit" /\ plotPath # "none"

\* C5: rows are appended only in RUN, one per tick to every sent and every
\* measured buffer, after one command and one telemetry read; at each tick
\* boundary and at DONE the sent and the measured buffers have equal length,
\* and every joint-indexed row has N_DOFS columns.
C5_BuffersGrowOnlyInRun ==
  LET n == Len(sent_positions)
      m == Len(measured_positions)
  IN /\ Len(sent_velocities) = n /\ Len(sent_accelerations) = n
     /\ Len(sent_time) = n
     /\ Len(measured_velocities) = m /\ Len(measured_torques) = m
     /\ Len(measured_time) = m
     /\ phase \in {"NOT_STARTED", "CLOCK_SYNC", "SETTLE_WAIT", "SETTLE_HOLD"}
          => (n = 0 /\ m = 0)
     /\ pc \in {"loop", "process", "plot", "exit"} => m = n
     /\ pc = "recv" => n = m + 1
     /\ \A i \in 1..n :
          /\ DOMAIN sent_positions[i] = 1..N_DOFS
          /\ DOMAIN sent_velocities[i] = 1..N_DOFS
          /\ DOMAIN sent_accelerations[i] = 1..N_DOFS
     /\ \A i \in 1..m :
          /\ DOMAIN measured_positions[i] = 1..N_DOFS
          /\ DOMAIN measured_velocities[i] = 1..N_DOFS
          /\ DOMAIN measured_torques[i] = 1..N_DOFS
     /\ telemetryRead = m
     /\ commandsSent = n + (IF started THEN 1 ELSE 0)

\* C5 witness: the loop is over after several RUN ticks
C5_Witness == phase = "DONE" /\ pc = "process" /\ Len(sent_positions) >= 2

\* C6: the recorded timestamps are strictly increasing.
C6_TimesStrictlyIncreasing ==
  \A i \in 2..Len(measured_time) : measured_time[i] > measured_time[i - 1]

\* C7: plot() loads the file named by --filename, the file main() wrote: a
\* run with --plot plots the arrays this run persisted.
C7_PlotReadsFilename ==
  plotPath # "none" =>
    /\ plotPath = args.filename
    /\ (mainCompleted /\ pc = "exit") => plotted = ThisRun

\* C8: a KeyboardInterrupt leaves the process without traceback or
\* post-mortem; every other failure in main() or plot() has its traceback
\* printed and then enters the post-mortem; after a failure in main() the
\* plotting step is never started.
C8_ErrorWrapper ==
  /\ exc = "none" => output = <<>>
  /\ exc = "KeyboardInterrupt" => (output = <<>> /\ pc = "uncaught")
  /\ exc \notin {"none", "KeyboardInterrupt"} =>
       (output = <<"traceback", "post_mortem">> /\ pc = "post_mortem")
  /\ excIn = "main" => (~PlotEntered /\ ~mainCompleted)

\* C8 witness: main() failed with --plot set and the post-mortem was entered
C8_Witness ==
  /\ args.plot /\ excIn = "main" /\ exc = "RuntimeError" /\ pc = "post_mortem"

\* C9 as stated: every SETTLE_WAIT iteration recomputes the elapsed time from
\* the clock and sends a command.
C9_WaitSendsCommands ==
  (phase = "SETTLE_WAIT" /\ lastEvalT >= 0) =>
    (waitSentCommand /\ t_elapsed = now - t_init)

\* C9 amended: every SETTLE_WAIT iteration recomputes the elapsed time from
\* the clock and sends no command; the first command is the one sent when the
\* zero-velocity point is detected.
C9_WaitSendsNothing ==
  /\ phase = "SETTLE_WAIT" =>
       (commandsSent = 0 /\ ~waitSentCommand /\ t_elapsed = now - t_init)
  /\ phase = "SETTLE_HOLD" => commandsSent = 1

\* C9 witness: the loop is still waiting after several iterations
C9_Witness ==
  phase = "SETTLE_WAIT" /\ pc = "loop" /\ lastEvalT >= 2 /\ t_elapsed < duration

\* RUN ended at the first telemetry timestamp that reached th, none before
EndsAtFirstTickFrom(th) ==
  /\ \A i \in 1..Len(measured_time) :
       measured_time[i] >= th =>
         /\ i = Len(measured_time)
         /\ pc # "recv"
         /\ ~(pc = "loop" /\ t_elapsed < duration)
  /\ phase = "DONE" =>
       /\ Len(measured_time) >= 1
       /\ measured_time[Len(measured_time)] >= th

\* C10 as stated: RUN ends at the first tick whose telemetry timestamp is at
\* least periods * PeriodLength after the end of the settle hold.
C10_RunEndsAfterHoldEnd ==
  holdEnd >= 0 => EndsAtFirstTickFrom(holdEnd + args.periods * PeriodLength)

\* C10 amended: entering SETTLE_HOLD sends one command and blocks for at least
\* one period; RUN ends at the first tick whose telemetry timestamp is at
\* least periods * PeriodLength after the clock reading of the detecting
\* iteration plus one period, whatever time was spent in SETTLE_WAIT.
C10_RunEndsAfterNominalHold ==
  /\ pc = "hold" => commandsSent = 1
  /\ holdEnd >= 0 =>
       /\ holdEnd >= detectClock + PeriodLength
       /\ EndsAtFirstTickFrom(
            detectClock + PeriodLength + args.periods * PeriodLength)

\* C10 witness: RUN ran to its end after a wait longer than one period
C10_Witness ==
  /\ phase = "DONE" /\ started
  /\ waited_for_start > PeriodLength
  /\ Len(measured_time) >= 2

====
